---- MODULE Spec2Model ----
(***************************************************************************)
(* Model of fetchTraewellingData.js: the start-up credential check, the    *)
(* promise returned by fetchJSON and the events of its HTTP response, and  *)
(* the coroutine run() with its pagination loop, statistics, schema        *)
(* transform and file write.  One action is one synchronous segment of     *)
(* JavaScript: an event callback, or run() from one await to the next.     *)
(***************************************************************************)
EXTENDS Integers, Sequences, FiniteSets, TLC

VARIABLES
    token,          \* process.env.API_TOKEN (line 11)
    proc,           \* the process: has it exited, and with which code (lines 15, 256)
    pc,             \* position of run(): the await it is suspended at (lines 83, 101, 126)
    userProfile,    \* run's userProfile, the parsed JSON (line 83)
    username,       \* run's username (line 89)
    page,           \* run's page (line 93)
    allStatuses,    \* run's allStatuses (line 94)
    hasMorePages,   \* run's hasMorePages (line 95)
    req,            \* the request/response of the latest fetchJSON call (lines 42-67)
    promise,        \* the promise returned by the latest fetchJSON call (line 25)
    timer,          \* the setTimeout of the inter-page delay (line 126)
    files,          \* the writes done by fs.writeFileSync, in order (line 241)
    served,         \* server side: number of statuses handed out so far
    log             \* observable events in order: requests, settlements,
                    \* timers, console.error lines, file writes

vars == <<token, proc, pc, userProfile, username, page, allStatuses,
          hasMorePages, req, promise, timer, files, served, log>>

(***************************************************************************)
(* Bounds of the model.                                                    *)
(***************************************************************************)
\* the user's history on the server holds at most this many statuses
MaxStatuses == 3
\* a response body arrives in at most this many 'data' chunks
MaxChunks == 2

\* the inter-page delay in milliseconds
DelayMs == 1000
\* the only status code fetchJSON accepts
HttpOK == 200

(***************************************************************************)
(* Values.                                                                 *)
(***************************************************************************)
\* API_TOKEN: undefined, the empty string, or a token
Tokens == { [defined |-> FALSE, value |-> ""],
            [defined |-> TRUE,  value |-> ""],
            [defined |-> TRUE,  value |-> "secret"] }

\* status codes a server answers with
StatusCodes == {HttpOK, 404, 500}

\* createdAt strings: a local time with a UTC offset, or text that is no date
CreatedAts == { [valid |-> TRUE,  local |-> 5, off |-> 0],
                [valid |-> TRUE,  local |-> 6, off |-> 2],
                [valid |-> FALSE, local |-> 0, off |-> 0] }

FullTrain == [defined |-> TRUE,  origin |-> TRUE,  destination |-> TRUE]
NoTrain   == [defined |-> FALSE, origin |-> FALSE, destination |-> FALSE]

\* statuses the API may return
ApiStatuses == { [createdAt |-> c, train |-> FullTrain] : c \in CreatedAts }
               \cup { [createdAt |-> [valid |-> TRUE, local |-> 5, off |-> 0],
                       train |-> NoTrain] }

\* parsed JSON values
JNone     == [t |-> "none",   items |-> <<>>]   \* no value
JNull     == [t |-> "null",   items |-> <<>>]   \* null
JNoData   == [t |-> "nodata", items |-> <<>>]   \* {}
JScalar   == [t |-> "scalar", items |-> <<>>]   \* {"data": "x"}
JUser     == [t |-> "user",   items |-> <<>>]   \* {"data": {"id": 1, "username": "alice"}}
JPage(it) == [t |-> "array",  items |-> it]     \* {"data": [...]}

SeqsUpTo(S, n) == UNION { [1..k -> S] : k \in 0..n }

\* response bodies: text that parses to a JSON value, or text that does not
Malformed   == [wellformed |-> FALSE, json |-> JNone]
Text(v)     == [wellformed |-> TRUE,  json |-> v]
NoBody      == [wellformed |-> FALSE, json |-> JNone]

UserBodies  == {Malformed, Text(JNull), Text(JNoData), Text(JUser)}
PageBodies(room) ==
    {Malformed, Text(JNull), Text(JNoData), Text(JScalar)}
    \cup { Text(JPage(it)) : it \in SeqsUpTo(ApiStatuses, room) }
\* bodies of error responses: an error page or a JSON document
ErrorBodies == {Malformed, Text(JNoData),
                Text(JPage(<<[createdAt |-> [valid |-> TRUE, local |-> 5, off |-> 0],
                              train |-> FullTrain]>>))}

NoErr == [kind |-> "none", status |-> 0, url |-> <<>>]
Ev(e, p, v, k) == [e |-> e, page |-> p, val |-> v, err |-> k]

(***************************************************************************)
(* Pure helpers of the script.                                             *)
(***************************************************************************)
\* !API_TOKEN: undefined and "" are falsy
IsFalsy_definedOnly(tok) == ~tok.defined
IsFalsy(tok) == ~tok.defined \/ tok.value = ""

\* res.statusCode !== 200
IsNotOK_serverErrorsOnly(status) == status >= 500
IsNotOK(status) == status # HttpOK

\* the URL fetchJSON requests: the query string is appended when params has keys
BuildUrl(url, params) ==
    IF Len(params) > 0 THEN [base |-> url, query |-> params]
                       ELSE [base |-> url, query |-> <<>>]

AuthUrl          == <<"api/v1/auth/user">>
StatusesUrl(u)   == <<"api/v1/user", u, "statuses">>
PageParams(p)    == << <<"page", p>> >>

\* JSON.parse(data): the value, or a SyntaxError
JSONParse(body) ==
    IF body.wellformed THEN [ok |-> TRUE,  value |-> body.json]
                       ELSE [ok |-> FALSE, value |-> JNone]

\* a promise settles once: resolve and reject on a settled promise do nothing
Settle(p, outcome) == IF p.state = "pending" THEN outcome ELSE p
Resolved(v)  == [state |-> "resolved", value |-> v,     err |-> NoErr]
Rejected(e)  == [state |-> "rejected", value |-> JNone, err |-> e]
Pending      == [state |-> "pending",  value |-> JNone, err |-> NoErr]
NoPromise    == [state |-> "none",     value |-> JNone, err |-> NoErr]

HttpError(status, url) == [kind |-> "http",      status |-> status, url |-> url]
ParseError             == [kind |-> "parse",     status |-> 0,      url |-> <<>>]
TransportError         == [kind |-> "transport", status |-> 0,      url |-> <<>>]

\* userProfile.data.username
UsernameOf(v) == IF v.t = "user" THEN "alice" ELSE "undefined"

\* !statusesResponse.data || !Array.isArray(statusesResponse.data)
BadShape(v) == v.t # "array"

\* allStatuses.concat(pageStatuses)
Concat_prepend(all, items) == items \o all
Concat(all, items) == all \o items

\* hasMorePages = pageStatuses.length > 0
HasMore_always(items) == TRUE
HasMore(items) == Len(items) > 0

\* if (hasMorePages) await the delay
NeedsDelay_never(more) == FALSE
NeedsDelay(more) == more

\* the catch of the page fetch ends with break
BreakOnError_continue == FALSE
BreakOnError == TRUE

\* if (allStatuses.length > 0)
ShouldExport_always(all) == Len(all) >= 0
ShouldExport(all) == Len(all) > 0

\* the outer catch only logs: it neither rethrows nor sets an exit code
CatchExits_withFailure == TRUE
CatchExits == FALSE

(***************************************************************************)
(* Dates: numbers are finite, NaN or an infinity.                          *)
(***************************************************************************)
Num(n)  == [k |-> "num",  ms |-> n]
NaN     == [k |-> "nan",  ms |-> 0]
PosInf  == [k |-> "+inf", ms |-> 0]
NegInf  == [k |-> "-inf", ms |-> 0]

\* new Date(s.createdAt): the instant in UTC, or Invalid Date
DateParse(c) == IF c.valid THEN Num(c.local - c.off) ELSE NaN

\* Math.min(...dates)
MathMin_first(ds) == IF Len(ds) = 0 THEN PosInf ELSE ds[1]
MathMin(ds) ==
    IF Len(ds) = 0 THEN PosInf
    ELSE IF \E i \in 1..Len(ds) : ds[i].k = "nan" THEN NaN
    ELSE Num(CHOOSE m \in {ds[i].ms : i \in 1..Len(ds)} :
                 \A i \in 1..Len(ds) : m <= ds[i].ms)

\* Math.max(...dates)
MathMax(ds) ==
    IF Len(ds) = 0 THEN NegInf
    ELSE IF \E i \in 1..Len(ds) : ds[i].k = "nan" THEN NaN
    ELSE Num(CHOOSE m \in {ds[i].ms : i \in 1..Len(ds)} :
                 \A i \in 1..Len(ds) : m >= ds[i].ms)

\* new Date(number): an infinite or NaN time value gives Invalid Date
NewDate(n) == IF n.k = "num" THEN n ELSE NaN

\* date.toISOString() throws a RangeError on Invalid Date
ISOThrows(d) == d.k # "num"
ToISOString(d) == [valid |-> TRUE, local |-> d.ms, off |-> 0]

\* the mapping of one status reads status.train.trip, .origin.id, .destination.id
MapThrows(s) == ~s.train.defined \/ ~s.train.origin \/ ~s.train.destination
MapStatus(s) ==
    [status |-> [createdAt |-> s.createdAt, train |-> s.train],
     trip   |-> [origin |-> s.train.origin, destination |-> s.train.destination]]

OutputFile(u) == <<u, "_statuses.json">>

\* run() from the end of the loop to the end of the try block: what is thrown
\* and what is written
ExportOutcome(profile, uname, all) ==
    IF ~ShouldExport(all) THEN [thrown |-> "none", written |-> <<>>]
    ELSE LET dates    == [i \in 1..Len(all) |-> DateParse(all[i].createdAt)]
             earliest == NewDate(MathMin(dates))
             latest   == NewDate(MathMax(dates))
         IN  IF ISOThrows(earliest) \/ ISOThrows(latest)
             THEN [thrown |-> "RangeError", written |-> <<>>]
             ELSE IF \E i \in 1..Len(all) : MapThrows(all[i])
             THEN [thrown |-> "TypeError", written |-> <<>>]
             ELSE [thrown |-> "none",
                   written |-> << [name |-> OutputFile(uname),
                                   meta |-> [user |-> profile,
                                             from |-> ToISOString(earliest),
                                             to   |-> ToISOString(latest)],
                                   data |-> [i \in 1..Len(all) |-> MapStatus(all[i])]] >>]

(***************************************************************************)
(* State machine.                                                          *)
(***************************************************************************)
NoReq == [url |-> BuildUrl(<<>>, <<>>), phase |-> "none", status |-> 0,
          body |-> NoBody, received |-> 0]
NewReq(u) == [url |-> u, phase |-> "sent", status |-> 0,
              body |-> NoBody, received |-> 0]
NotExited == [exited |-> FALSE, code |-> 0]
Exited(c) == [exited |-> TRUE, code |-> c]

\* the page number in a URL's query string, 0 when it has none
PageOf(u) == IF Len(u.query) = 0 THEN 0 ELSE u.query[1][2]

Init ==
    /\ token \in Tokens
    /\ proc = NotExited
    /\ pc = "start"
    /\ userProfile = JNone
    /\ username = "undefined"
    /\ page = 0
    /\ allStatuses = <<>>
    /\ hasMorePages = FALSE
    /\ req = NoReq
    /\ promise = NoPromise
    /\ timer = "idle"
    /\ files = <<>>
    /\ served = 0
    /\ log = <<>>

\* a continuation of run() is queued as a microtask: it runs before any
\* further I/O or timer callback
RunReady ==
    \/ pc \in {"awaitUser", "awaitPage"} /\ promise.state \in {"resolved", "rejected"}
    \/ pc = "awaitDelay" /\ timer = "fired"

\* module top level with API_TOKEN falsy: console.error and process.exit(1)
StartNoToken ==
    /\ pc = "start" /\ ~proc.exited
    /\ IsFalsy(token)
    /\ proc' = Exited(1)
    /\ pc' = "exited"
    /\ log' = Append(log, Ev("errToken", 0, JNone, "none"))
    /\ UNCHANGED <<token, userProfile, username, page, allStatuses, hasMorePages,
                   req, promise, timer, files, served>>

\* module top level with a token: run() is called and runs to its first await,
\* the fetchJSON of the authenticated user
StartRun ==
    /\ pc = "start" /\ ~proc.exited
    /\ ~IsFalsy(token)
    /\ req' = NewReq(BuildUrl(AuthUrl, <<>>))
    /\ promise' = Pending
    /\ log' = Append(log, Ev("request", 0, JNone, "none"))
    /\ pc' = "awaitUser"
    /\ UNCHANGED <<token, proc, userProfile, username, page, allStatuses,
                   hasMorePages, timer, files, served>>

\* the callback of https.get: a non-200 status rejects the promise, and the
\* 'data' and 'end' listeners are registered in every case
ResponseHeaders ==
    /\ ~proc.exited /\ ~RunReady
    /\ req.phase = "sent"
    /\ \E st \in StatusCodes :
        /\ req' = [req EXCEPT !.phase = "headers", !.status = st]
        /\ IF IsNotOK(st)
           THEN /\ promise' = Settle(promise, Rejected(HttpError(st, req.url)))
                /\ log' = IF promise.state = "pending"
                          THEN Append(log, Ev("rejected", PageOf(req.url), JNone, "http"))
                          ELSE log
           ELSE UNCHANGED <<promise, log>>
    /\ UNCHANGED <<token, proc, pc, userProfile, username, page, allStatuses,
                   hasMorePages, timer, files, served>>

\* res.on("data"): one more chunk is appended to data
DataChunk ==
    /\ ~proc.exited /\ ~RunReady
    /\ req.phase = "headers"
    /\ req.received < MaxChunks
    /\ req' = [req EXCEPT !.received = @ + 1]
    /\ UNCHANGED <<token, proc, pc, userProfile, username, page, allStatuses,
                   hasMorePages, promise, timer, files, served, log>>

\* the bodies a server sends to this request: what the chunks collected in data
\* add up to, drawn when 'end' parses it; text that parses needs a chunk
BodiesFor(r) ==
    { b \in IF r.status # HttpOK THEN ErrorBodies
            ELSE IF PageOf(r.url) = 0 THEN UserBodies
            ELSE PageBodies(MaxStatuses - served) :
        b.wellformed => r.received >= 1 }

\* res.on("end"): JSON.parse(data), then resolve, or reject with the SyntaxError
End ==
    /\ ~proc.exited /\ ~RunReady
    /\ req.phase = "headers"
    /\ \E b \in BodiesFor(req) :
        LET parsed  == JSONParse(b)
            outcome == IF parsed.ok THEN Resolved(parsed.value) ELSE Rejected(ParseError)
        IN  /\ req' = [req EXCEPT !.phase = "ended", !.body = b, !.received = 0]
            /\ promise' = Settle(promise, outcome)
            /\ log' = IF promise.state = "pending"
                      THEN Append(log, Ev(outcome.state, PageOf(req.url), outcome.value,
                                          outcome.err.kind))
                      ELSE log
            /\ served' = IF req.status = HttpOK /\ b.wellformed
                         THEN served + Len(b.json.items) ELSE served
    /\ UNCHANGED <<token, proc, pc, userProfile, username, page, allStatuses,
                   hasMorePages, timer, files>>

\* the request's 'error' event: reject(err)
RequestError ==
    /\ ~proc.exited /\ ~RunReady
    /\ req.phase \in {"sent", "headers"}
    /\ req' = [req EXCEPT !.phase = "errored", !.received = 0]
    /\ promise' = Settle(promise, Rejected(TransportError))
    /\ log' = IF promise.state = "pending"
              THEN Append(log, Ev("rejected", PageOf(req.url), JNone, "transport"))
              ELSE log
    /\ UNCHANGED <<token, proc, pc, userProfile, username, page, allStatuses,
                   hasMorePages, timer, files, served>>

\* run's outer catch: console.error, after which run() returns
OuterCatch(lg, kind) ==
    /\ log' = Append(lg, Ev("errOuter", 0, JNone, kind))
    /\ pc' = "done"
    /\ proc' = IF CatchExits THEN Exited(1) ELSE proc

\* run() from the end of the while loop to its return
AfterLoop(profile, uname, all, lg) ==
    LET out == ExportOutcome(profile, uname, all)
        lg1 == IF Len(out.written) > 0
               THEN Append(lg, Ev("write", 0, JNone, "none")) ELSE lg
    IN  /\ files' = files \o out.written
        /\ IF out.thrown # "none"
           THEN OuterCatch(lg1, out.thrown)
           ELSE /\ log' = lg1
                /\ pc' = "done"
                /\ proc' = proc

\* the head of the while loop: the next page is requested and run() suspends,
\* or the loop is left
LoopHead(profile, uname, more, pg, all, lg) ==
    IF more
    THEN /\ req' = NewReq(BuildUrl(StatusesUrl(uname), PageParams(pg)))
         /\ promise' = Pending
         /\ log' = Append(lg, Ev("request", pg, JNone, "none"))
         /\ pc' = "awaitPage"
         /\ UNCHANGED <<files, proc>>
    ELSE /\ AfterLoop(profile, uname, all, lg)
         /\ UNCHANGED <<req, promise>>

\* run() resumes after the fetch of the profile was rejected, or resolved with
\* a value whose data cannot be read: the outer catch
UserFailed ==
    /\ pc = "awaitUser" /\ ~proc.exited
    /\ \/ promise.state = "rejected" /\ OuterCatch(log, promise.err.kind)
       \/ /\ promise.state = "resolved"
          /\ promise.value.t \in {"null", "nodata"}
          /\ OuterCatch(log, "TypeError")
    /\ UNCHANGED <<token, userProfile, username, page, allStatuses, hasMorePages,
                   req, promise, timer, files, served>>

\* run() resumes with the profile, initialises the loop and requests page 1
UserResolved ==
    /\ pc = "awaitUser" /\ ~proc.exited
    /\ promise.state = "resolved"
    /\ promise.value.t \notin {"null", "nodata"}
    /\ userProfile' = promise.value
    /\ username' = UsernameOf(promise.value)
    /\ page' = 1
    /\ allStatuses' = <<>>
    /\ hasMorePages' = TRUE
    /\ LoopHead(userProfile', username', hasMorePages', page', allStatuses', log)
    /\ UNCHANGED <<token, timer, served>>

\* run() resumes after a page fetch was rejected, or its value was null (the
\* read of .data throws inside the inner try): console.error and break
PageFailed ==
    /\ pc = "awaitPage" /\ ~proc.exited
    /\ \/ promise.state = "rejected"
       \/ promise.state = "resolved" /\ promise.value.t = "null"
    /\ LET lg == Append(log, Ev("errPage", page, JNone,
                                IF promise.state = "rejected" THEN promise.err.kind
                                ELSE "TypeError"))
       IN  IF BreakOnError
           THEN /\ AfterLoop(userProfile, username, allStatuses, lg)
                /\ UNCHANGED <<req, promise>>
           ELSE LoopHead(userProfile, username, hasMorePages, page, allStatuses, lg)
    /\ UNCHANGED <<token, userProfile, username, page, allStatuses, hasMorePages,
                   timer, served>>

\* run() resumes with a value whose data is missing or no array: console.error
\* and break
PageBadShape ==
    /\ pc = "awaitPage" /\ ~proc.exited
    /\ promise.state = "resolved"
    /\ promise.value.t # "null"
    /\ BadShape(promise.value)
    /\ AfterLoop(userProfile, username, allStatuses,
                 Append(log, Ev("errFormat", page, JNone, "none")))
    /\ UNCHANGED <<token, userProfile, username, page, allStatuses, hasMorePages,
                   req, promise, timer, served>>

\* run() resumes with a page: the items are accumulated, the page counter is
\* incremented, and run() suspends on the delay or leaves the loop
PageItems ==
    /\ pc = "awaitPage" /\ ~proc.exited
    /\ promise.state = "resolved"
    /\ promise.value.t # "null"
    /\ ~BadShape(promise.value)
    /\ LET pageStatuses == promise.value.items
       IN  /\ allStatuses' = Concat(allStatuses, pageStatuses)
           /\ hasMorePages' = HasMore(pageStatuses)
           /\ page' = page + 1
    /\ IF NeedsDelay(hasMorePages')
       THEN /\ timer' = "armed"
            /\ pc' = "awaitDelay"
            /\ log' = Append(log, Ev("delayStart", DelayMs, JNone, "none"))
            /\ UNCHANGED <<req, promise, files, proc>>
       ELSE /\ LoopHead(userProfile, username, hasMorePages', page', allStatuses', log)
            /\ timer' = timer
    /\ UNCHANGED <<token, userProfile, username, served>>

\* the timer of the delay fires and resolves the delay's promise
TimerFire ==
    /\ ~proc.exited /\ ~RunReady
    /\ timer = "armed"
    /\ timer' = "fired"
    /\ log' = Append(log, Ev("delayDone", DelayMs, JNone, "none"))
    /\ UNCHANGED <<token, proc, pc, userProfile, username, page, allStatuses,
                   hasMorePages, req, promise, files, served>>

\* run() resumes after the delay, at the head of the loop
DelayResume ==
    /\ pc = "awaitDelay" /\ ~proc.exited
    /\ timer = "fired"
    /\ timer' = "idle"
    /\ LoopHead(userProfile, username, hasMorePages, page, allStatuses, log)
    /\ UNCHANGED <<token, userProfile, username, page, allStatuses, hasMorePages,
                   served>>

\* run() has returned and no response or timer is outstanding: node exits
\* with the default exit code
ProcessExit ==
    /\ pc = "done" /\ ~proc.exited
    /\ req.phase \in {"none", "ended", "errored"}
    /\ timer = "idle"
    /\ proc' = Exited(0)
    /\ UNCHANGED <<token, pc, userProfile, username, page, allStatuses,
                   hasMorePages, req, promise, timer, files, served, log>>

Next ==
    \/ StartNoToken
    \/ StartRun
    \/ ResponseHeaders
    \/ DataChunk
    \/ End
    \/ RequestError
    \/ UserFailed
    \/ UserResolved
    \/ PageFailed
    \/ PageBadShape
    \/ PageItems
    \/ TimerFire
    \/ DelayResume
    \/ ProcessExit

Spec == Init /\ [][Next]_vars

(***************************************************************************)
(* Reading the event log.                                                  *)
(***************************************************************************)
IsPageRequest(ev)  == ev.e = "request" /\ ev.page >= 1
IsPageSettled(ev)  == ev.e \in {"resolved", "rejected"} /\ ev.page >= 1
\* a page whose fetch resolved with an array in data
IsValidPage(ev)    == ev.e = "resolved" /\ ev.page >= 1 /\ ev.val.t = "array"
IsEmptyPage(ev)    == IsValidPage(ev) /\ Len(ev.val.items) = 0
IsNonEmptyPage(ev) == IsValidPage(ev) /\ Len(ev.val.items) > 0
\* a page whose fetch was rejected or whose value has no array in data
IsFailedPage(ev)   == IsPageSettled(ev) /\ ~IsValidPage(ev)
IsDelay(ev)        == ev.e \in {"delayStart", "delayDone"}

PageRequests == SelectSeq(log, IsPageRequest)
ValidPages   == SelectSeq(log, IsValidPage)
FailedPages  == SelectSeq(log, IsFailedPage)
\* the events of the pagination loop: page requests, their settlements, delays
LoopEvents   == SelectSeq(log, LAMBDA ev : IsPageRequest(ev) \/ IsPageSettled(ev)
                                           \/ IsDelay(ev))
OuterCaught  == \E i \in 1..Len(log) : log[i].e = "errOuter"

RECURSIVE SumLens(_)
SumLens(evs) == IF evs = <<>> THEN 0
                ELSE Len(evs[1].val.items) + SumLens(Tail(evs))

RECURSIVE FlattenItems(_)
FlattenItems(evs) == IF evs = <<>> THEN <<>>
                     ELSE evs[1].val.items \o FlattenItems(Tail(evs))

\* number of items of the valid pages before the k-th one
Offset(k) == SumLens(SubSeq(ValidPages, 1, k - 1))

\* the instant a createdAt string denotes
Instant(c) == c.local - c.off
Exportable(s) == s.createdAt.valid /\ s.train.defined /\ s.train.origin
                 /\ s.train.destination

(***************************************************************************)
(* C1: page requests are issued for pages 1, 2, 3, ... in ascending order, *)
(* and once a page k has resolved with an array of zero items no request   *)
(* is issued after it, so none for a page number greater than k.           *)
(***************************************************************************)
C1_StopsAtFirstEmptyPage ==
    /\ \A k \in 1..Len(PageRequests) : PageRequests[k].page = k
    /\ \A i \in 1..Len(log) :
          IsEmptyPage(log[i]) =>
              /\ \A j \in 1..Len(log) :
                     log[j].e = "request" => log[j].page <= log[i].page
              /\ \A j \in (i + 1)..Len(log) : log[j].e # "request"

C1_Witness ==
    /\ pc = "done"
    /\ Len(PageRequests) >= 3
    /\ \E i \in 1..Len(log) : IsEmptyPage(log[i]) /\ log[i].page = 3

(***************************************************************************)
(* C2: when the loop has ended and every page fetch resolved with an array,*)
(* allStatuses is the items of the fetched pages in ascending page order,  *)
(* each page's items in their own order, and its length is the sum of the  *)
(* page sizes.                                                             *)
(***************************************************************************)
C2_AccumulatesInOrder ==
    (pc = "done" /\ Len(PageRequests) > 0 /\ Len(FailedPages) = 0) =>
        /\ Len(ValidPages) = Len(PageRequests)
        /\ \A k \in 1..Len(ValidPages) : ValidPages[k].page = k
        /\ Len(allStatuses) = SumLens(ValidPages)
        /\ \A k \in 1..Len(ValidPages) :
              \A j \in 1..Len(ValidPages[k].val.items) :
                  allStatuses[Offset(k) + j] = ValidPages[k].val.items[j]

C2_Witness ==
    /\ pc = "done" /\ Len(FailedPages) = 0
    /\ Len(ValidPages) = 3
    /\ Len(ValidPages[1].val.items) = 2
    /\ Len(ValidPages[2].val.items) = 1
    /\ allStatuses[1] # allStatuses[2]
    /\ allStatuses[2] # allStatuses[3]

\* what holds in every run once the fetch of some page has failed or has
\* resolved with a value without an array: nothing is requested after it, the
\* failed page was requested once and no later page at all, and allStatuses
\* is the items of the pages before it
StopsAtFailedPage ==
    \A i \in 1..Len(log) :
        IsFailedPage(log[i]) =>
            /\ \A j \in (i + 1)..Len(log) : log[j].e # "request"
            /\ \A j \in 1..Len(log) :
                   log[j].e = "request" => log[j].page <= log[i].page
            /\ Cardinality({j \in 1..Len(log) : log[j].e = "request"
                                                 /\ log[j].page = log[i].page}) = 1
            /\ Len(ValidPages) = log[i].page - 1
            /\ \A k \in 1..Len(ValidPages) : ValidPages[k].page = k
            /\ allStatuses = FlattenItems(ValidPages)

\* the file written from the partial list
WrittenFrom(all) ==
    /\ Len(files) = 1
    /\ Len(files[1].data) = Len(all)
    /\ \A k \in 1..Len(all) :
          /\ files[1].data[k].status.createdAt = all[k].createdAt
          /\ files[1].data[k].status.train = all[k].train

(***************************************************************************)
(* C3 as stated: after a failed or invalid page N the loop stops without   *)
(* retrying N or requesting a later page, allStatuses is the items of      *)
(* pages 1..N-1, and the run ends having written the export file whenever  *)
(* that list is non-empty.                                                 *)
(***************************************************************************)
C3_Original ==
    /\ StopsAtFailedPage
    /\ (pc = "done" /\ Len(FailedPages) > 0 /\ Len(allStatuses) > 0)
           => WrittenFrom(allStatuses)

(***************************************************************************)
(* C3 amended: as above, but the export file is written from the partial   *)
(* list when that list is non-empty and every status of it has a valid     *)
(* creation timestamp and a train with origin and destination; with a      *)
(* status that has not, the error reaches run's outer handler and no file  *)
(* is written; with an empty list no file is written.                      *)
(***************************************************************************)
C3_PartialExport ==
    /\ StopsAtFailedPage
    /\ (pc = "done" /\ Len(FailedPages) > 0) =>
          IF Len(allStatuses) > 0
             /\ \A k \in 1..Len(allStatuses) : Exportable(allStatuses[k])
          THEN WrittenFrom(allStatuses) /\ ~OuterCaught
          ELSE /\ files = <<>>
               /\ OuterCaught <=> Len(allStatuses) > 0

C3_Witness ==
    /\ pc = "done"
    /\ Len(FailedPages) = 1
    /\ FailedPages[1].page = 3
    /\ FailedPages[1].e = "rejected"
    /\ Len(allStatuses) = 2
    /\ Len(files) = 1

(***************************************************************************)
(* C4: a run whose allStatuses is empty when the loop ends (first page     *)
(* empty, failed or of invalid shape) writes no file, does not reach the   *)
(* outer error handler and does not exit with a failure code; a file is    *)
(* written only when at least one status was accumulated.                  *)
(***************************************************************************)
C4_EmptyRunWritesNothing ==
    /\ Len(files) > 0 => Len(allStatuses) > 0
    /\ (pc = "done" /\ Len(PageRequests) > 0 /\ Len(allStatuses) = 0) =>
          /\ files = <<>>
          /\ ~OuterCaught
          /\ proc.code = 0

C4_Witness ==
    /\ pc = "done" /\ proc.exited
    /\ Len(allStatuses) = 0
    /\ Len(FailedPages) = 1
    /\ FailedPages[1].page = 1
    /\ FailedPages[1].err = "http"
    /\ req.status = 500

(***************************************************************************)
(* C5: for a response whose status is not 200 the promise of fetchJSON is  *)
(* rejected with the error carrying that status and the URL, and stays so  *)
(* when 'end' parses a well-formed body; the promise is resolved only for  *)
(* status 200 with a well-formed body, with the parsed value.              *)
(***************************************************************************)
C5_Non200NeverResolves ==
    /\ (req.phase \in {"headers", "ended", "errored"} /\ req.status # 0
        /\ req.status # 200) =>
          /\ promise.state = "rejected"
          /\ promise.err.kind = "http"
          /\ promise.err.status = req.status
          /\ promise.err.url = req.url
    /\ promise.state = "resolved" =>
          /\ req.status = 200
          /\ req.phase = "ended"
          /\ req.body.wellformed
          /\ promise.value = req.body.json

C5_Witness ==
    /\ req.status = 404
    /\ req.phase = "ended"
    /\ req.body.wellformed
    /\ promise.state = "rejected"
    /\ PageOf(req.url) = 2

(***************************************************************************)
(* C6: with API_TOKEN undefined or empty the process exits with a non-zero *)
(* code at start-up, and no request is ever issued and no file written.    *)
(***************************************************************************)
C6_NoTokenNoNetwork ==
    (~token.defined \/ token.value = "") =>
        /\ \A i \in 1..Len(log) : log[i].e \notin {"request", "write"}
        /\ req.phase = "none"
        /\ promise.state = "none"
        /\ files = <<>>
        /\ pc \in {"start", "exited"}
        /\ pc = "exited" => (proc.exited /\ proc.code # 0)

C6_Witness ==
    /\ token.defined /\ token.value = ""
    /\ pc = "exited"
    /\ proc.exited

(***************************************************************************)
(* C7: once an error has reached run's outer handler, no file has been     *)
(* written and none is written later, no request is issued after it, run   *)
(* has returned, and the process exits with code 0.                        *)
(***************************************************************************)
C7_OuterHandlerContainsErrors ==
    \A i \in 1..Len(log) :
        log[i].e = "errOuter" =>
            /\ files = <<>>
            /\ \A j \in 1..Len(log) : log[j].e # "write"
            /\ \A j \in (i + 1)..Len(log) : log[j].e # "request"
            /\ pc = "done"
            /\ proc.code = 0

C7_Witness ==
    /\ \E i \in 1..Len(log) : log[i].e = "errOuter" /\ log[i].err = "TypeError"
    /\ Len(allStatuses) = 2
    /\ proc.exited

(***************************************************************************)
(* C8: every request for a page after the first directly follows a         *)
(* completed delay of DelayMs that was started after the previous page     *)
(* resolved with at least one item; a delay is started only after such a   *)
(* page, so none after an empty, failed or invalid page.                   *)
(***************************************************************************)
C8_DelayBetweenPages ==
    \A i \in 1..Len(LoopEvents) :
        /\ (IsPageRequest(LoopEvents[i]) /\ LoopEvents[i].page > 1) =>
              /\ i >= 4
              /\ LoopEvents[i - 1].e = "delayDone"
              /\ LoopEvents[i - 1].page = 1000
              /\ LoopEvents[i - 2].e = "delayStart"
              /\ IsNonEmptyPage(LoopEvents[i - 3])
              /\ LoopEvents[i - 3].page = LoopEvents[i].page - 1
        /\ LoopEvents[i].e = "delayStart" =>
              /\ i >= 2
              /\ IsNonEmptyPage(LoopEvents[i - 1])
        /\ (IsEmptyPage(LoopEvents[i]) \/ IsFailedPage(LoopEvents[i])) =>
              \A j \in (i + 1)..Len(LoopEvents) : ~IsDelay(LoopEvents[j])

C8_Witness ==
    /\ pc = "done"
    /\ Len(PageRequests) = 3
    /\ Cardinality({i \in 1..Len(log) : log[i].e = "delayDone"}) = 2
    /\ Len(FailedPages) = 0

(***************************************************************************)
(* C9: for a non-200 response the promise is rejected with the HTTP status *)
(* error only once the response body has been consumed to its end.         *)
(***************************************************************************)
C9_RejectsAfterDrain ==
    (promise.state = "rejected" /\ promise.err.kind = "http") =>
        req.phase = "ended"

(***************************************************************************)
(* C10: in a written export document meta.from is the minimum and meta.to  *)
(* the maximum of the records' creation instants: from <= every record's   *)
(* instant <= to, each is the instant of some record, and with a single    *)
(* record from equals to.                                                  *)
(***************************************************************************)
C10_FromToAreMinMax ==
    \A f \in 1..Len(files) :
        LET doc == files[f]
            T   == [k \in 1..Len(doc.data) |-> Instant(doc.data[k].status.createdAt)]
        IN  /\ Len(doc.data) = Len(allStatuses)
            /\ Len(doc.data) > 0
            /\ doc.meta.from.valid /\ doc.meta.to.valid
            /\ \A k \in 1..Len(T) : /\ Instant(doc.meta.from) <= T[k]
                                    /\ T[k] <= Instant(doc.meta.to)
            /\ \E k \in 1..Len(T) : Instant(doc.meta.from) = T[k]
            /\ \E k \in 1..Len(T) : Instant(doc.meta.to) = T[k]
            /\ Len(T) = 1 => doc.meta.from = doc.meta.to

C10_Witness ==
    /\ Len(files) = 1
    /\ Len(files[1].data) = 3
    /\ Instant(files[1].data[1].status.createdAt) = 5
    /\ Instant(files[1].data[2].status.createdAt) = 4
    /\ Instant(files[1].meta.from) = 4
    /\ Instant(files[1].meta.to) = 5

====
